---- MODULE Spec2Model ----
(***************************************************************************)
(* Finance Tracker (dataentry.py): the credential store (users table,      *)
(* create_user / verify_user / passcode change), the transaction ledger    *)
(* (insert_transaction / list_transactions / reset_user_data) and the      *)
(* filtering and aggregation the page computes from a ledger snapshot.     *)
(*                                                                         *)
(* TEXT values (usernames, passcodes, dates as stored, categories, month   *)
(* keys) are sequences of code points, so that len(), string comparison,   *)
(* formatting and parsing are computed and not assumed.  Amounts are       *)
(* integers (hundredths); floating-point rounding of sums is not modelled. *)
(***************************************************************************)
EXTENDS Integers, Sequences, FiniteSets

VARIABLES
    users,          \* the users table: set of rows [id, username, passcode_hash]
    userSeq,        \* AUTOINCREMENT counter of users (sqlite_sequence)
    transactions,   \* the transactions table: set of rows
    txSeq,          \* AUTOINCREMENT counter of transactions
    session,        \* st.session_state of each browser session, and where its script run stands
    view,           \* what the last script run of a logged-in session computed
    inserted,       \* history: per user id, the rows inserted since the last reset
    lastOp          \* history: the operation the last step performed, and its outcome

vars == <<users, userSeq, transactions, txSeq, session, view, inserted, lastOp>>

-----------------------------------------------------------------------------
(* Bounds and input sets *)

MaxTx == 3

MaxViewTx == 2

PasscodeLen == 10

None == 0

Sessions == {"A", "B"}

Salts == {"salt1", "salt2"}

RECURSIVE Rep(_, _)
Rep(n, c) == IF n = 0 THEN <<>> ELSE <<c>> \o Rep(n - 1, c)

\* "alice", "bob" and the empty username
Alice == <<97, 108, 105, 99, 101>>
Bob == <<98, 111, 98>>
Usernames == {<<>>, Alice, Bob}

\* passcodes of 9, 10 and 11 characters 'a' (one byte each), and of 10 characters U+00E9 (two bytes each)
Passcodes ==
    {Rep(n, 97) : n \in {PasscodeLen - 1, PasscodeLen, PasscodeLen + 1}} \cup {Rep(PasscodeLen, 233)}

\* the ids of the two users that can exist, and one id no user has
AllUids == 1 .. Cardinality(Usernames)

Food == <<70, 111, 111, 100>>
Rent == <<82, 101, 110, 116>>
Categories == {Food, Rent}

Amounts == {0, 50}

Date(y, m, d) == [y |-> y, m |-> m, d |-> d]

\* the dates transactions are entered with
TxDates == {Date(2023, 12, 5), Date(2023, 12, 20), Date(2024, 2, 1)}

\* the dates the sidebar's range is picked from
RangeDates == {Date(2023, 12, 5), Date(2023, 12, 10), Date(2024, 2, 1)}

\* a date column value that is no date: "n/a"
BadDate == <<110, 47, 97>>

-----------------------------------------------------------------------------
(* Text *)

Min(a, b) == IF a <= b THEN a ELSE b

\* Python / SQLite BINARY comparison of two strings: s < t
TextLess(s, t) ==
    \E k \in 1 .. (Min(Len(s), Len(t)) + 1) :
        /\ \A i \in 1 .. (k - 1) : s[i] = t[i]
        /\ \/ (k = Len(s) + 1 /\ k <= Len(t))
           \/ (k <= Len(s) /\ k <= Len(t) /\ s[k] < t[k])

\* zero-padded decimal of n on w digits
RECURSIVE Digits(_, _)
Digits(n, w) == IF w = 0 THEN <<>> ELSE Digits(n \div 10, w - 1) \o <<48 + (n % 10)>>

IsDigit(c) == c \in 48 .. 57

RECURSIVE Number(_)
Number(s) == IF s = <<>> THEN 0 ELSE 10 * Number(SubSeq(s, 1, Len(s) - 1)) + (s[Len(s)] - 48)

\* str.encode("utf-8") for code points below U+0800
RECURSIVE encode_utf8(_)
encode_utf8(s) ==
    IF s = <<>> THEN <<>>
    ELSE (IF s[1] < 128 THEN <<s[1]>> ELSE <<192 + (s[1] \div 64), 128 + (s[1] % 64)>>)
         \o encode_utf8(Tail(s))

-----------------------------------------------------------------------------
(* bcrypt.  The digest is modelled as an injective function of the salt    *)
(* and of the first 72 bytes of the password, which is what bcrypt reads.  *)

bcrypt_hashpw(password, salt) ==
    [salt |-> salt, digest |-> SubSeq(password, 1, Min(Len(password), 72))]

bcrypt_checkpw(password, stored) == bcrypt_hashpw(password, stored.salt) = stored

-----------------------------------------------------------------------------
(* Credential store *)

get_user_id_by_username(username) ==
    IF \E r \in users : r.username = username
    THEN (CHOOSE r \in users : r.username = username).id
    ELSE None

\* the guard of create_user: not (not username or len(passcode) != 10)
create_user_valid_nolen(username, passcode) == username # <<>>

create_user_valid(username, passcode) == username # <<>> /\ Len(passcode) = PasscodeLen

\* users.username is UNIQUE: an INSERT of a present username is rejected
username_unique_off(username) == TRUE

username_unique(username) == ~ \E r \in users : r.username = username

\* verify_user without the bcrypt.checkpw test
verify_user_unchecked(username, passcode) == get_user_id_by_username(username)

verify_user(username, passcode) ==
    IF username = <<>> THEN None
    ELSE IF ~ \E r \in users : r.username = username THEN None
    ELSE LET row == CHOOSE r \in users : r.username = username
         IN IF bcrypt_checkpw(encode_utf8(passcode), row.passcode_hash) THEN row.id ELSE None

Op(op, s, username, passcode, uid, result, ok, raised) ==
    [op |-> op, session |-> s, username |-> username, passcode |-> passcode,
     uid |-> uid, result |-> result, ok |-> ok, raised |-> raised]

NoView == [rendered |-> FALSE]

\* create_user up to its lookup: validation, then get_user_id_by_username in a
\* connection of its own; the INSERT is a later statement in another connection
create_user_lookup(s, username, passcode) ==
    /\ session[s].pc = "idle"
    /\ session[s].user_id = None
    /\ IF create_user_valid(username, passcode) /\ get_user_id_by_username(username) = None
       THEN /\ session' = [session EXCEPT ![s].pc = "create_insert",
                                          ![s].arg_username = username,
                                          ![s].arg_passcode = passcode]
            /\ lastOp' = Op("create_user_lookup", s, username, passcode, None, None, TRUE, "")
       ELSE /\ session' = session
            /\ lastOp' = Op("create_user", s, username, passcode, None, None, FALSE, "")
    /\ UNCHANGED <<users, userSeq, transactions, txSeq, view, inserted>>

create_user_insert(s, salt) ==
    /\ session[s].pc = "create_insert"
    /\ LET username == session[s].arg_username
           passcode == session[s].arg_passcode
           p_hash == bcrypt_hashpw(encode_utf8(passcode), salt)
       IN IF username_unique(username)
          THEN /\ users' = users \cup {[id |-> userSeq + 1, username |-> username,
                                        passcode_hash |-> p_hash]}
               /\ userSeq' = userSeq + 1
               /\ lastOp' = Op("create_user", s, username, passcode, None, userSeq + 1, TRUE, "")
          ELSE /\ UNCHANGED <<users, userSeq>>
               /\ lastOp' = Op("create_user", s, username, passcode, None, None, FALSE,
                               "IntegrityError")
    /\ session' = [session EXCEPT ![s].pc = "idle", ![s].arg_username = <<>>,
                                  ![s].arg_passcode = <<>>]
    /\ UNCHANGED <<transactions, txSeq, view, inserted>>

\* the "Sign in" button
login(s, username, passcode) ==
    /\ session[s].pc = "idle"
    /\ session[s].user_id = None
    /\ LET uid == IF Len(passcode) # PasscodeLen THEN None ELSE verify_user(username, passcode)
       IN /\ session' = IF uid = None THEN session
                        ELSE [session EXCEPT ![s].user_id = uid, ![s].username = username]
          /\ lastOp' = Op("login", s, username, passcode, None, uid, uid # None, "")
    /\ UNCHANGED <<users, userSeq, transactions, txSeq, view, inserted>>

\* the "Save new passcode" button
change_passcode(s, new_p, salt) ==
    /\ session[s].pc = "idle"
    /\ session[s].user_id # None
    /\ IF Len(new_p) # PasscodeLen
       THEN /\ users' = users
            /\ lastOp' = Op("change_passcode", s, session[s].username, new_p,
                            session[s].user_id, None, FALSE, "")
       ELSE /\ users' = {IF r.id = session[s].user_id
                         THEN [r EXCEPT !.passcode_hash = bcrypt_hashpw(encode_utf8(new_p), salt)]
                         ELSE r : r \in users}
            /\ lastOp' = Op("change_passcode", s, session[s].username, new_p,
                            session[s].user_id, session[s].user_id, TRUE, "")
    /\ UNCHANGED <<userSeq, transactions, txSeq, session, view, inserted>>

\* the "Sign out" button
sign_out(s) ==
    /\ session[s].pc = "idle"
    /\ session[s].user_id # None
    /\ session' = [session EXCEPT ![s].user_id = None, ![s].username = <<>>]
    /\ lastOp' = Op("sign_out", s, <<>>, <<>>, session[s].user_id, None, TRUE, "")
    /\ UNCHANGED <<users, userSeq, transactions, txSeq, view, inserted>>

-----------------------------------------------------------------------------
(* Dates *)

\* pandas' missing datetime
NaT == [y |-> 0, m |-> 0, d |-> 0]

IsLeap(y) == (y % 4 = 0 /\ y % 100 # 0) \/ y % 400 = 0

DaysInMonth(y, m) ==
    IF m = 2 THEN (IF IsLeap(y) THEN 29 ELSE 28)
    ELSE IF m \in {4, 6, 9, 11} THEN 30 ELSE 31

\* str(date) of a datetime.date: YYYY-MM-DD
date_str(d) == Digits(d.y, 4) \o <<45>> \o Digits(d.m, 2) \o <<45>> \o Digits(d.d, 2)

\* pd.to_datetime(text, errors="coerce") of one stored value: the date of a
\* YYYY-MM-DD text within the Timestamp range, NaT for a text that is no date
to_datetime(t) ==
    IF /\ Len(t) = 10
       /\ t[5] = 45
       /\ t[8] = 45
       /\ \A i \in {1, 2, 3, 4, 6, 7, 9, 10} : IsDigit(t[i])
    THEN LET y == Number(SubSeq(t, 1, 4))
             m == Number(SubSeq(t, 6, 7))
             d == Number(SubSeq(t, 9, 10))
         IN IF y \in 1678 .. 2261 /\ m \in 1 .. 12 /\ d \in 1 .. DaysInMonth(y, m)
            THEN Date(y, m, d)
            ELSE NaT
    ELSE NaT

\* a <= b on dates
DateLeq(a, b) ==
    \/ a.y < b.y
    \/ (a.y = b.y /\ a.m < b.m)
    \/ (a.y = b.y /\ a.m = b.m /\ a.d <= b.d)

\* the month a date falls in, counted in months
MonthIndex(d) == d.y * 12 + (d.m - 1)

\* strftime("%Y-%m") of the first day of month k
strftime_Ym(k) == Digits(k \div 12, 4) \o <<45>> \o Digits((k % 12) + 1, 2)

-----------------------------------------------------------------------------
(* Transaction ledger *)

\* ORDER BY date ASC, id ASC: the date column is TEXT
RowBeforeById(r, q) == r.id <= q.id

RowBefore(r, q) == TextLess(r.date, q.date) \/ (r.date = q.date /\ r.id <= q.id)

RECURSIVE OrderBy(_)
OrderBy(S) ==
    IF S = {} THEN <<>>
    ELSE LET first == CHOOSE r \in S : \A q \in S : RowBefore(r, q)
         IN <<first>> \o OrderBy(S \ {first})

\* the rows the SELECT of list_transactions matches, in its order
list_rows(user_id) == OrderBy({r \in transactions : r.user_id = user_id})

\* the DataFrame list_transactions returns: columns date, amount, category, description
list_transactions(user_id) ==
    LET rows == list_rows(user_id)
    IN [i \in 1 .. Len(rows) |->
           [date |-> rows[i].date, amount |-> rows[i].amount,
            category |-> rows[i].category, description |-> rows[i].description]]

\* transactions.user_id REFERENCES users(id), with foreign_keys = ON
user_exists(user_id) == \E r \in users : r.id = user_id

\* insert_transaction; its caller then reruns the script, which discards the
\* page computed before
insert_transaction(user_id, date, amount, category, description) ==
    /\ txSeq < MaxTx
    /\ IF user_exists(user_id)
       THEN LET row == [id |-> txSeq + 1, user_id |-> user_id, date |-> date,
                        amount |-> amount, category |-> category,
                        description |-> description]
            IN /\ transactions' = transactions \cup {row}
               /\ txSeq' = txSeq + 1
               /\ inserted' = [inserted EXCEPT ![user_id] = Append(@, row)]
               /\ lastOp' = Op("insert_transaction", "A", <<>>, <<>>, user_id, txSeq + 1, TRUE, "")
       ELSE /\ UNCHANGED <<transactions, txSeq, inserted>>
            /\ lastOp' = Op("insert_transaction", "A", <<>>, <<>>, user_id, None, FALSE,
                            "IntegrityError")
    /\ view' = NoView
    /\ UNCHANGED <<users, userSeq, session>>

\* DELETE FROM transactions WHERE user_id=?
reset_delete_all(user_id) == {}

reset_delete(user_id) == {r \in transactions : r.user_id # user_id}

\* reset_user_data; lastOp.result is the number of rows deleted
reset_user_data(user_id) ==
    /\ transactions' = reset_delete(user_id)
    /\ inserted' = [inserted EXCEPT ![user_id] = <<>>]
    /\ lastOp' = Op("reset_user_data", "A", <<>>, <<>>, user_id,
                    Cardinality(transactions) - Cardinality(reset_delete(user_id)), TRUE, "")
    /\ view' = NoView
    /\ UNCHANGED <<users, userSeq, txSeq, session>>

-----------------------------------------------------------------------------
(* The page: the filters and aggregates one script run computes *)

RECURSIVE SumAmount(_)
SumAmount(rows) == IF rows = <<>> THEN 0 ELSE Head(rows).amount + SumAmount(Tail(rows))

\* df after the load: the date column through pd.to_datetime(errors="coerce"); the
\* amount column holds numbers, which pd.to_numeric(...).fillna(0.0) leaves as they are
load_df(user_id) ==
    LET raw == list_transactions(user_id)
    IN [i \in 1 .. Len(raw) |-> [raw[i] EXCEPT !.date = to_datetime(raw[i].date)]]

\* the sidebar takes its filter branch: not (df.empty or df["date"].dropna().empty)
has_valid_dates(df) == \E i \in 1 .. Len(df) : df[i].date # NaT

\* df[mask]: date present and start_date <= date <= end_date
date_mask(r, start_date, end_date) ==
    r.date # NaT /\ DateLeq(start_date, r.date) /\ DateLeq(r.date, end_date)

filter_by_date(df, start_date, end_date) ==
    LET keep(r) == date_mask(r, start_date, end_date)
    IN SelectSeq(df, keep)

\* the options of the category multiselect
cats_of(df_range) == {df_range[i].category : i \in 1 .. Len(df_range)}

\* df_range[df_range["category"].isin(picked_cats)] if picked_cats else df_range.iloc[0:0]
filter_by_categories_show_all(df_range, picked_cats) ==
    LET keep(r) == r.category \in picked_cats
    IN IF picked_cats # {} THEN SelectSeq(df_range, keep) ELSE df_range

filter_by_categories(df_range, picked_cats) ==
    LET keep(r) == r.category \in picked_cats
    IN IF picked_cats # {} THEN SelectSeq(df_range, keep) ELSE <<>>

\* df_filtered of the sidebar
sidebar_filter(df, start_date, end_date, picked_cats) ==
    IF df = <<>> \/ ~ has_valid_dates(df)
    THEN df
    ELSE filter_by_categories(filter_by_date(df, start_date, end_date), picked_cats)

\* "Total shown"
total_shown(df_filtered) == IF df_filtered # <<>> THEN SumAmount(df_filtered) ELSE 0

\* the rows of month k
MonthAmount(rows, k) ==
    LET keep(r) == r.date # NaT /\ MonthIndex(r.date) = k
    IN SumAmount(SelectSeq(rows, keep))

\* dropna(subset=["date"]).groupby(pd.Grouper(key="date", freq="MS"))["amount"].sum():
\* one bin per month start from the first row's month to the last row's month,
\* a bin without rows summing to 0; then the month column by strftime
month_summary_sparse(df_filtered) ==
    LET months == {MonthIndex(df_filtered[i].date) :
                       i \in {j \in 1 .. Len(df_filtered) : df_filtered[j].date # NaT}}
        RECURSIVE Asc(_)
        Asc(S) == IF S = {} THEN <<>>
                  ELSE LET k == CHOOSE x \in S : \A z \in S : x <= z
                       IN <<[month |-> strftime_Ym(k), amount |-> MonthAmount(df_filtered, k)]>>
                          \o Asc(S \ {k})
    IN Asc(months)

month_summary(df_filtered) ==
    LET months == {MonthIndex(df_filtered[i].date) :
                       i \in {j \in 1 .. Len(df_filtered) : df_filtered[j].date # NaT}}
    IN IF months = {} THEN <<>>
       ELSE LET lo == CHOOSE x \in months : \A z \in months : x <= z
                hi == CHOOSE x \in months : \A z \in months : x >= z
            IN [i \in 1 .. (hi - lo + 1) |->
                   [month |-> strftime_Ym(lo + i - 1),
                    amount |-> MonthAmount(df_filtered, lo + i - 1)]]

\* round(n / d, 0) for d > 0, halves to the even neighbour
RoundDiv(n, d) ==
    LET q == n \div d
        r == n % d
    IN IF 2 * r < d THEN q
       ELSE IF 2 * r > d THEN q + 1
       ELSE IF q % 2 = 0 THEN q ELSE q + 1

\* (amount / total_amount * 100).round(1), in tenths of a percent; a float
\* division by 0.0 raises nothing and yields nan (0/0) or an infinity
percent_of(amount, total_amount) ==
    IF total_amount = 0
    THEN [kind |-> IF amount = 0 THEN "nan" ELSE "inf", tenths |-> 0]
    ELSE [kind |-> "number",
          tenths |-> IF total_amount > 0 THEN RoundDiv(amount * 1000, total_amount)
                     ELSE RoundDiv(0 - amount * 1000, 0 - total_amount)]

CategoryAmount(rows, c) ==
    LET keep(r) == r.category = c
    IN SumAmount(SelectSeq(rows, keep))

\* groupby("category")["amount"].sum() sorted by amount descending (groups of
\* equal amount kept in category order), with the percent column
category_summary(df_filtered) ==
    LET total_amount == SumAmount(df_filtered)
        RECURSIVE Desc(_)
        Desc(S) ==
            IF S = {} THEN <<>>
            ELSE LET c == CHOOSE x \in S : \A z \in S :
                              \/ CategoryAmount(df_filtered, x) > CategoryAmount(df_filtered, z)
                              \/ /\ CategoryAmount(df_filtered, x) = CategoryAmount(df_filtered, z)
                                 /\ (x = z \/ TextLess(x, z))
                 IN <<[category |-> c, amount |-> CategoryAmount(df_filtered, c),
                       percent |-> percent_of(CategoryAmount(df_filtered, c), total_amount)]>>
                    \o Desc(S \ {c})
    IN Desc(cats_of(df_filtered))

\* the page computed from df with the widgets at start_date, end_date, picked_cats
page(s, df, start_date, end_date, picked_cats) ==
    LET ranged == df # <<>> /\ has_valid_dates(df)
    IN \E df_range \in {IF ranged THEN filter_by_date(df, start_date, end_date) ELSE <<>>} :
       \E df_filtered \in {sidebar_filter(df, start_date, end_date, picked_cats)} :
           view' =
           [rendered |-> TRUE, session |-> s, ranged |-> ranged,
            start_date |-> start_date, end_date |-> end_date, picked_cats |-> picked_cats,
            df |-> df, df_range |-> df_range, df_filtered |-> df_filtered,
            total |-> total_shown(df_filtered),
            month_summary |-> IF df_filtered # <<>> THEN month_summary(df_filtered) ELSE <<>>,
            category_summary |->
                IF df_filtered # <<>> THEN category_summary(df_filtered) ELSE <<>>]

\* one run of the script for a logged-in session.  The sidebar shows its widgets
\* only when df has a valid date: the range (start_date <= end_date) and the
\* categories picked among those of df_range
render(s) ==
    /\ session[s].pc = "idle"
    /\ session[s].user_id # None
    /\ \E df \in {load_df(session[s].user_id)} :
           IF df # <<>> /\ has_valid_dates(df)
           THEN \E start_date \in RangeDates, end_date \in RangeDates :
                    /\ DateLeq(start_date, end_date)
                    /\ \E picked_cats \in
                           SUBSET cats_of(filter_by_date(df, start_date, end_date)) :
                           page(s, df, start_date, end_date, picked_cats)
           ELSE page(s, df, NaT, NaT, {})
    /\ lastOp' = Op("render", s, <<>>, <<>>, session[s].user_id, None, TRUE, "")
    /\ UNCHANGED <<users, userSeq, transactions, txSeq, session, inserted>>

NoSession == [user_id |-> None, username |-> <<>>, pc |-> "idle",
              arg_username |-> <<>>, arg_passcode |-> <<>>]

\* init_db on an empty database file, and fresh session states
Init ==
    /\ users = {}
    /\ userSeq = 0
    /\ transactions = {}
    /\ txSeq = 0
    /\ session = [s \in Sessions |-> NoSession]
    /\ view = NoView
    /\ inserted = [u \in AllUids |-> <<>>]
    /\ lastOp = Op("init_db", "A", <<>>, <<>>, None, None, TRUE, "")

Next ==
    \/ \E s \in Sessions, u \in Usernames, p \in Passcodes : create_user_lookup(s, u, p)
    \/ \E s \in Sessions, salt \in Salts : create_user_insert(s, salt)
    \/ \E s \in Sessions, u \in Usernames, p \in Passcodes : login(s, u, p)
    \/ \E s \in Sessions, p \in Passcodes, salt \in Salts : change_passcode(s, p, salt)
    \/ \E s \in Sessions : sign_out(s)

Spec == Init /\ [][Next]_vars


-----------------------------------------------------------------------------
(* The ledger alone: two registered users, rows inserted and reset for any id *)

LedgerDateTexts == {date_str(Date(2023, 12, 20)), date_str(Date(2024, 2, 1)), BadDate}

InitLedger ==
    /\ users = {[id |-> 1, username |-> Alice,
                 passcode_hash |-> bcrypt_hashpw(encode_utf8(Rep(PasscodeLen, 97)), "salt1")],
                [id |-> 2, username |-> Bob,
                 passcode_hash |-> bcrypt_hashpw(encode_utf8(Rep(PasscodeLen, 97)), "salt2")]}
    /\ userSeq = 2
    /\ transactions = {}
    /\ txSeq = 0
    /\ session = [s \in Sessions |-> NoSession]
    /\ view = NoView
    /\ inserted = [u \in AllUids |-> <<>>]
    /\ lastOp = Op("init_db", "A", <<>>, <<>>, None, None, TRUE, "")

NextLedger ==
    \/ \E u \in AllUids, date \in LedgerDateTexts : insert_transaction(u, date, 50, Food, <<>>)
    \/ \E u \in AllUids : reset_user_data(u)

SpecLedger == InitLedger /\ [][NextLedger]_vars

-----------------------------------------------------------------------------
(* The page of one logged-in user over the ledger that user builds *)

TxDateTexts == {date_str(d) : d \in TxDates} \cup {BadDate}

InitView ==
    /\ users = {[id |-> 1, username |-> Alice,
                 passcode_hash |-> bcrypt_hashpw(encode_utf8(Rep(PasscodeLen, 97)), "salt1")]}
    /\ userSeq = 1
    /\ transactions = {}
    /\ txSeq = 0
    /\ session = [s \in Sessions |->
                     IF s = "A" THEN [NoSession EXCEPT !.user_id = 1, !.username = Alice]
                     ELSE NoSession]
    /\ view = NoView
    /\ inserted = [u \in AllUids |-> <<>>]
    /\ lastOp = Op("login", "A", Alice, Rep(PasscodeLen, 97), None, 1, TRUE, "")

NextView ==
    \/ \E date \in TxDateTexts, amount \in Amounts, category \in Categories :
           /\ txSeq < MaxViewTx
           /\ insert_transaction(session["A"].user_id, date, amount, category, <<>>)
    \/ reset_user_data(session["A"].user_id)
    \/ render("A")

SpecView == InitView /\ [][NextView]_vars

-----------------------------------------------------------------------------
(* Properties *)

\* a is b with some of its elements left out
RECURSIVE IsSubseq(_, _)
IsSubseq(a, b) ==
    IF a = <<>> THEN TRUE
    ELSE IF b = <<>> THEN FALSE
    ELSE IF Head(a) = Head(b) THEN IsSubseq(Tail(a), Tail(b))
    ELSE IsSubseq(a, Tail(b))

Range(seq) == {seq[i] : i \in 1 .. Len(seq)}

\* C1: in the state right after create_user(username, p) succeeded with id,
\* verify_user(username, p) is id, and verify_user(username, q) is not id for
\* every other passcode q.
C1_VerifyAfterCreate ==
    (lastOp.op = "create_user" /\ lastOp.ok) =>
        /\ lastOp.result # None
        /\ verify_user(lastOp.username, lastOp.passcode) = lastOp.result
        /\ \A q \in Passcodes :
               q # lastOp.passcode => verify_user(lastOp.username, q) # lastOp.result

\* C1 witness: a second account has just been created
C1_Witness ==
    /\ lastOp.op = "create_user"
    /\ lastOp.ok
    /\ \E r \in users : r.username # lastOp.username

\* C2: a create_user or a passcode change with a passcode whose length is not 10
\* fails and leaves the users table (rows, hashes, id counter) as it was.
C2_BadLengthRejected ==
    [][(lastOp'.op \in {"create_user", "change_passcode"}
        /\ Len(lastOp'.passcode) # PasscodeLen)
       => (~ lastOp'.ok /\ users' = users /\ userSeq' = userSeq)]_vars

\* C2 witness: a logged-in user's passcode change was refused for its length
C2_Witness ==
    /\ lastOp.op = "change_passcode"
    /\ Len(lastOp.passcode) # PasscodeLen
    /\ ~ lastOp.ok
    /\ users # {}

\* C3: no two rows of users share a username, and a create_user that ends while
\* its username is registered fails, adds no row and changes no hash, whatever
\* its passcode and however the sessions' steps interleave.
C3_OneUserPerUsername ==
    [][/\ \A r1, r2 \in users' : r1.username = r2.username => r1 = r2
       /\ (lastOp'.op = "create_user" /\ \E r \in users : r.username = lastOp'.username)
          => (~ lastOp'.ok /\ lastOp'.result = None /\ users' = users)]_vars

\* C3 witness: of two interleaved create_user of one username, the second INSERT
\* was rejected
C3_Witness ==
    /\ lastOp.op = "create_user"
    /\ lastOp.raised = "IntegrityError"
    /\ \E r \in users : r.username = lastOp.username

\* C4: for every user id u, list_transactions(u) holds exactly the rows inserted
\* for u since u's last reset, all owned by u, in ascending date order (as text
\* and, for dates, as dates), rows of equal date in insertion order.
C4_ListIsInsertedSinceReset ==
    \A u \in AllUids :
        \E L \in {list_rows(u)} :
            /\ Range(L) = Range(inserted[u])
            /\ Len(L) = Len(inserted[u])
            /\ \A i \in 1 .. Len(L) : L[i].user_id = u
            /\ \A i, j \in 1 .. Len(L) :
                   i < j =>
                       /\ ~ TextLess(L[j].date, L[i].date)
                       /\ (to_datetime(L[i].date) # NaT /\ to_datetime(L[j].date) # NaT)
                          => DateLeq(to_datetime(L[i].date), to_datetime(L[j].date))
                       /\ L[i].date = L[j].date => L[i].id < L[j].id
            /\ Len(list_transactions(u)) = Len(L)
            /\ \A i \in 1 .. Len(L) :
                   /\ list_transactions(u)[i].date = L[i].date
                   /\ list_transactions(u)[i].amount = L[i].amount
                   /\ list_transactions(u)[i].category = L[i].category

\* C4 witness: a user's later insert is listed first, while another user has rows
C4_Witness ==
    \E u, v \in AllUids :
        /\ u # v
        /\ Len(inserted[v]) > 0
        /\ Len(list_rows(u)) >= 2
        /\ list_rows(u)[1].id > list_rows(u)[2].id

\* C5: reset_user_data(u) succeeds, leaves u no transaction, leaves the users
\* table and every other user's transactions as they were, and right after a
\* reset_user_data(u) a second one changes nothing.
C5_ResetDeletesOnlyOwn ==
    [][lastOp'.op = "reset_user_data" =>
          /\ lastOp'.ok
          /\ \A u \in AllUids : lastOp'.uid = u => list_transactions(u)' = <<>>
          /\ {r \in transactions' : r.user_id # lastOp'.uid}
                 = {r \in transactions : r.user_id # lastOp'.uid}
          /\ users' = users
          /\ userSeq' = userSeq
          /\ (lastOp.op = "reset_user_data" /\ lastOp.uid = lastOp'.uid)
             => (transactions' = transactions /\ txSeq' = txSeq)]_vars

\* C5 witness: a reset deleted rows while another user has transactions
C5_Witness ==
    /\ lastOp.op = "reset_user_data"
    /\ lastOp.result > 0
    /\ \E r \in transactions : r.user_id # lastOp.uid

InRange(r, start_date, end_date) ==
    r.date # NaT /\ DateLeq(start_date, r.date) /\ DateLeq(r.date, end_date)

C7_CategoryFilterExact ==
    (view.rendered /\ view.ranged) =>
        /\ IsSubseq(view.df_filtered, view.df_range)
        /\ \A i \in 1 .. Len(view.df_filtered) :
               view.df_filtered[i].category \in view.picked_cats
        /\ Len(view.df_filtered) =
               Cardinality({i \in 1 .. Len(view.df_range) :
                                view.df_range[i].category \in view.picked_cats})
        /\ view.picked_cats = {} => view.df_filtered = <<>>

\* C7 witness: nothing is picked while the date range holds rows
C7_Witness ==
    /\ view.rendered
    /\ view.ranged
    /\ view.picked_cats = {}
    /\ view.df_range # <<>>

\* the months in which rows has a transaction
MonthsOf(rows) == {MonthIndex(rows[i].date) : i \in {j \in 1 .. Len(rows) : rows[j].date # NaT}}

\* C8 (as amended): the monthly summary has one entry for every calendar month
\* from the first to the last month in which the input has a transaction, in
\* order; a month of that span without a transaction has an entry of total 0.
C8_MonthlyTotalsDense ==
    (view.rendered /\ view.df_filtered # <<>>) =>
        \E months \in {MonthsOf(view.df_filtered)} :
            IF months = {} THEN view.month_summary = <<>>
            ELSE \E lo \in months, hi \in months :
                     /\ \A k \in months : lo <= k /\ k <= hi
                     /\ Len(view.month_summary) = hi - lo + 1
                     /\ \A k \in lo .. hi :
                            /\ view.month_summary[k - lo + 1].month = strftime_Ym(k)
                            /\ view.month_summary[k - lo + 1].amount
                                   = MonthAmount(view.df_filtered, k)
                            /\ k \notin months => view.month_summary[k - lo + 1].amount = 0

\* C8 witness: the summary has an entry for a month without a transaction
C8_Witness ==
    /\ view.rendered
    /\ \E i \in 1 .. Len(view.month_summary) :
           /\ view.month_summary[i].amount = 0
           /\ \A k \in MonthsOf(view.df_filtered) : view.month_summary[i].month # strftime_Ym(k)

\* C8 (as stated): the monthly summary has an entry for exactly the months in
\* which the input has a transaction, and for no other month.
C8_MonthlyTotalsSparse ==
    (view.rendered /\ view.df_filtered # <<>>) =>
        /\ Len(view.month_summary) = Cardinality(MonthsOf(view.df_filtered))
        /\ {view.month_summary[i].month : i \in 1 .. Len(view.month_summary)}
               = {strftime_Ym(k) : k \in MonthsOf(view.df_filtered)}

====
